---- MODULE Spec2Model ----
(***************************************************************************)
(* Model of src/src/index.ts: a Durable Object per document that tracks    *)
(* the finished pages of a fan-out job, the /send_to_queue and /status     *)
(* HTTP handlers, and the queue consumer that records page completions.    *)
(*                                                                         *)
(* Every `await` of the source is a point where other handlers may run,    *)
(* so every awaited call is one action.  A Durable Object method is one    *)
(* atomic step: its storage reads and writes are not interleaved with      *)
(* other events of the same object (input/output gates).                   *)
(*                                                                         *)
(* QueueMessage.start_time is only read to log a duration; it is left out  *)
(* of the messages.  A message's optional fields page and total_pages are  *)
(* 0 when the source leaves them undefined (both are falsy in the source). *)
(***************************************************************************)
EXTENDS Integers, Sequences, FiniteSets, Bags, TLC

(* ---- bounds ---- *)
MaxDocs == 1
MaxPages == 2
MaxWorkers == 2
MaxBatch == 2
MaxRedeliveries == 1
MaxLen == 3
MaxFailures == 1

\* lines 53-54: the largest batch the queue takes in one sendBatch, the
\* limit that defaultAmount is set to
sendBatchLimit == 100

Docs == 1..MaxDocs
Workers == 1..MaxWorkers

(* ---- the `amount` query parameter: strings as sequences of characters ---- *)
Digits == <<"0", "1", "2", "3", "4", "5", "6", "7", "8", "9">>
DigitChars == {Digits[i] : i \in 1..10}
DigitVal(c) == (CHOOSE i \in 1..10 : Digits[i] = c) - 1

\* c.req.query('amount'): undefined when the parameter is missing
Undefined == [present |-> FALSE, value |-> <<>>]
Str(s) == [present |-> TRUE, value |-> s]

\* Number.prototype.toString for a non-negative integer (defaultAmount.toString())
RECURSIVE toString(_)
toString(n) ==
    IF n < 10 THEN <<Digits[n + 1]>>
    ELSE toString(n \div 10) \o <<Digits[(n % 10) + 1]>>

\* parseInt step 2: strip leading white space
RECURSIVE TrimStart(_)
TrimStart(s) ==
    IF s # <<>> /\ Head(s) = " " THEN TrimStart(Tail(s)) ELSE s

\* parseInt steps 11-12: the longest prefix of decimal digits
RECURSIVE DigitPrefix(_)
DigitPrefix(s) ==
    IF s # <<>> /\ Head(s) \in DigitChars
    THEN <<Head(s)>> \o DigitPrefix(Tail(s))
    ELSE <<>>

RECURSIVE DecimalValue(_)
DecimalValue(z) ==
    IF z = <<>> THEN 0
    ELSE 10 * DecimalValue(SubSeq(z, 1, Len(z) - 1)) + DigitVal(z[Len(z)])

\* parseInt(string) with no radix; the result is NaN or an integer
parseInt(s) ==
    LET t == TrimStart(s)
        neg == t # <<>> /\ Head(t) = "-"
        u == IF t # <<>> /\ Head(t) \in {"-", "+"} THEN Tail(t) ELSE t
        z == DigitPrefix(u)
    IN  IF z = <<>> THEN [nan |-> TRUE, value |-> 0]
        ELSE [nan |-> FALSE,
              value |-> IF neg THEN 0 - DecimalValue(z) ELSE DecimalValue(z)]

defaultAmount == 100

\* line 55: parseInt(c.req.query('amount') || defaultAmount.toString()) || defaultAmount
ParseAmount(q) ==
    LET s == IF q.present /\ q.value # <<>> THEN q.value ELSE toString(defaultAmount)
        n == parseInt(s)
    IN  IF n.nan \/ n.value = 0 THEN defaultAmount ELSE n.value

(* ---- Durable Object storage ---- *)
\* ctx.storage of one object: the keys that are set and their values
EmptyStorage == [keys |-> {}, amount_of_pages |-> 0, finished_pages |-> {}]

\* `(await this.ctx.storage.get('amount_of_pages')) || 0`
GetAmountOrZero(st) ==
    IF "amount_of_pages" \in st.keys THEN st.amount_of_pages ELSE 0

\* `(await this.ctx.storage.get('finished_pages')) || new Set()`
GetFinishedOrEmpty(st) ==
    IF "finished_pages" \in st.keys THEN st.finished_pages ELSE {}

\* MyDurableObject.set_amount_of_pages
set_amount_of_pages(st, amount) ==
    [st EXCEPT !.keys = @ \cup {"amount_of_pages"}, !.amount_of_pages = amount]

\* defective variant: starts from a new Set on every call
finished_page_overwrite(st, page_num) ==
    [st EXCEPT !.keys = @ \cup {"finished_pages"}, !.finished_pages = {page_num}]

\* MyDurableObject.finished_page
finished_page(st, page_num) ==
    [st EXCEPT !.keys = @ \cup {"finished_pages"},
               !.finished_pages = GetFinishedOrEmpty(st) \cup {page_num}]

\* MyDurableObject.is_finished
is_finished(st) ==
    Cardinality(GetFinishedOrEmpty(st)) = GetAmountOrZero(st)

\* MyDurableObject.get_finished_pages
get_finished_pages(st) == GetFinishedOrEmpty(st)

\* defective variant: storage.delete('finished_pages') in place of deleteAll()
delete_finished_pages_only(st) ==
    [st EXCEPT !.keys = @ \ {"finished_pages"}, !.finished_pages = {}]

\* MyDurableObject.delete: storage.deleteAll()
delete(st) == EmptyStorage

(* ---- queue messages ---- *)
PageMessage(d, i, n) ==
    [type |-> "page", document_id |-> d, page |-> i, total_pages |-> n]
EndMessage(d) ==
    [type |-> "end", document_id |-> d, page |-> 0, total_pages |-> 0]

\* defective variant: `page: i` in place of `page: i + 1`
PageMessagesZeroBased(d, amount) == {PageMessage(d, i - 1, amount) : i \in 1..amount}

\* lines 63-69: Array.from({ length: amount }, (_, i) => ...); a negative
\* length gives the empty array
PageMessages(d, amount) == {PageMessage(d, i, amount) : i \in 1..amount}

RECURSIVE SeqToBag(_)
SeqToBag(b) ==
    IF b = <<>> THEN EmptyBag ELSE SetToBag({Head(b)}) (+) SeqToBag(Tail(b))

\* the batches of at most MaxBatch messages the queue can hand to a consumer
Batches(q) ==
    {b \in UNION {[1..n -> BagToSet(q)] : n \in 1..MaxBatch} : SeqToBag(b) \sqsubseteq q}

(* ---- queue consumer control flow, lines 125-130 ---- *)
\* the position after an awaited call of the page branch; "loop" is the
\* next iteration of `for (let message of batch.messages)`
\* defective variant: delete() before the `end` message is sent
NextPcDeleteFirst(pc, finished) ==
    CASE pc = "finished_page" -> "is_finished"
      [] pc = "is_finished" -> IF finished THEN "delete" ELSE "loop"
      [] pc = "delete" -> "send_end"
      [] pc = "send_end" -> "loop"

\* defective variant: the `end` message is sent whatever is_finished() says
NextPcAlwaysSend(pc, finished) ==
    CASE pc = "finished_page" -> "is_finished"
      [] pc = "is_finished" -> "send_end"
      [] pc = "send_end" -> "delete"
      [] pc = "delete" -> "loop"

NextPc(pc, finished) ==
    CASE pc = "finished_page" -> "is_finished"
      [] pc = "is_finished" -> IF finished THEN "send_end" ELSE "loop"
      [] pc = "send_end" -> "delete"
      [] pc = "delete" -> "loop"

(* ---- state ---- *)
VARIABLES
    storage,        \* storage[d]: ctx.storage of the Durable Object named d
    queue,          \* MY_QUEUE: bag of messages waiting for delivery
    dispatch,       \* dispatch[d]: the /send_to_queue request that drew id d
    handler,        \* handler[w]: one invocation of the queue() consumer
    status,         \* the /status request in progress and its response
    ends_sent,      \* history: number of `end` messages sent per document
    true_count,     \* history: number of is_finished() = true seen by consumers
    delete_count,   \* history: number of delete() calls per document
    late_recorded,  \* history: a page was recorded after a delete()
    recorded,       \* history: the pages recorded since the last delete()
    failed,         \* history: where consumer invocations threw
    redeliveries    \* number of batches the queue delivered a second time

vars == <<storage, queue, dispatch, handler, status, ends_sent, true_count,
          delete_count, late_recorded, recorded, failed, redeliveries>>

NoRequest == [pc |-> "none", query |-> Undefined, amount |-> 0]
IdleHandler ==
    [pc |-> "idle", delivered |-> <<>>, batch |-> <<>>, was_present |-> FALSE,
     finished |-> FALSE]
IdleStatus ==
    [pc |-> "idle", document_id |-> 0, after_delete |-> FALSE,
     prev_true |-> FALSE,
     finished |-> FALSE, finished_pages |-> {}]

Init ==
    /\ storage = [d \in Docs |-> EmptyStorage]
    /\ queue = EmptyBag
    /\ dispatch = [d \in Docs |-> NoRequest]
    /\ handler = [w \in Workers |-> IdleHandler]
    /\ status = IdleStatus
    /\ ends_sent = [d \in Docs |-> 0]
    /\ true_count = [d \in Docs |-> 0]
    /\ delete_count = [d \in Docs |-> 0]
    /\ late_recorded = [d \in Docs |-> FALSE]
    /\ recorded = [d \in Docs |-> {}]
    /\ failed = <<>>
    /\ redeliveries = 0

(* ---- GET /send_to_queue ---- *)
\* lines 54-61: parse the amount, draw a fresh document id, store the amount
SendToQueueStore(d, q) ==
    /\ dispatch[d].pc = "none"
    /\ LET amount == ParseAmount(q)
       IN  /\ dispatch' = [dispatch EXCEPT ![d] =
                              [pc |-> "stored", query |-> q, amount |-> amount]]
           /\ storage' = [storage EXCEPT ![d] = set_amount_of_pages(@, amount)]
    /\ UNCHANGED <<queue, handler, status, ends_sent, true_count, delete_count,
                   late_recorded, recorded, failed, redeliveries>>

\* lines 63-77: build the page messages and sendBatch them
SendToQueueSend(d) ==
    /\ dispatch[d].pc = "stored"
    /\ queue' = queue (+) SetToBag(PageMessages(d, dispatch[d].amount))
    /\ dispatch' = [dispatch EXCEPT ![d].pc = "sent"]
    /\ UNCHANGED <<storage, handler, status, ends_sent, true_count,
                   delete_count, late_recorded, recorded, failed, redeliveries>>

(* ---- GET /status ---- *)
\* lines 83-86; the record also keeps, as history, whether the job had been
\* deleted when the request came in and whether an earlier response for the
\* same document, to a request made after the delete, said finished = true
StatusRequest(d) ==
    /\ status.pc \in {"idle", "done"}
    /\ status' = [pc |-> "is_finished", document_id |-> d,
                  after_delete |-> delete_count[d] > 0,
                  prev_true |-> /\ status.document_id = d
                                /\ \/ status.prev_true
                                   \/ status.after_delete /\ status.finished,
                  finished |-> FALSE, finished_pages |-> {}]
    /\ UNCHANGED <<storage, queue, dispatch, handler, ends_sent, true_count,
                   delete_count, late_recorded, recorded, failed, redeliveries>>

\* defective variant: is_finished() stores the set it defaulted to
StatusIsFinishedStoring ==
    /\ status.pc = "is_finished"
    /\ status' = [status EXCEPT !.pc = "get_finished_pages",
                                !.finished = is_finished(storage[status.document_id])]
    /\ storage' = [storage EXCEPT ![status.document_id].keys = @ \cup {"finished_pages"}]
    /\ UNCHANGED <<queue, dispatch, handler, ends_sent, true_count, delete_count,
                   late_recorded, recorded, failed, redeliveries>>

\* line 88
StatusIsFinished ==
    /\ status.pc = "is_finished"
    /\ status' = [status EXCEPT !.pc = "get_finished_pages",
                                !.finished = is_finished(storage[status.document_id])]
    /\ UNCHANGED <<storage, queue, dispatch, handler, ends_sent, true_count,
                   delete_count, late_recorded, recorded, failed, redeliveries>>

\* lines 89-91
StatusGetFinishedPages ==
    /\ status.pc = "get_finished_pages"
    /\ status' = [status EXCEPT !.pc = "done",
                     !.finished_pages = get_finished_pages(storage[status.document_id])]
    /\ UNCHANGED <<storage, queue, dispatch, handler, ends_sent, true_count,
                   delete_count, late_recorded, recorded, failed, redeliveries>>

(* ---- queue(batch, env), lines 96-134 ---- *)
Current(w) == Head(handler[w].batch)
CurrentDoc(w) == Current(w).document_id

\* the queue hands a batch to a consumer invocation; at-least-once delivery:
\* when `again` the batch also stays in the queue and is delivered once more
Deliver(w, b, again) ==
    /\ handler[w].pc = "idle"
    /\ b \in Batches(queue)
    /\ IF again
       THEN /\ redeliveries < MaxRedeliveries
            /\ redeliveries' = redeliveries + 1
            /\ queue' = queue
       ELSE /\ redeliveries' = redeliveries
            /\ queue' = queue (-) SeqToBag(b)
    /\ handler' = [handler EXCEPT ![w] =
                      [pc |-> "loop", delivered |-> b, batch |-> b,
                       was_present |-> FALSE, finished |-> FALSE]]
    /\ UNCHANGED <<storage, dispatch, status, ends_sent, true_count,
                   delete_count, late_recorded, recorded, failed>>

\* defective variant: no test of message.body.type or message.body.page
HandleMessageNoTypeCheck(w) ==
    /\ handler[w].pc = "loop"
    /\ handler' = [handler EXCEPT ![w] =
          IF handler[w].batch = <<>> THEN IdleHandler
          ELSE [@ EXCEPT !.pc = "finished_page"]]
    /\ UNCHANGED <<storage, queue, dispatch, status, ends_sent, true_count,
                   delete_count, late_recorded, recorded, failed, redeliveries>>

\* lines 99-121: one iteration of the loop up to the first call on the stub:
\* an `end` message is logged and skipped; a `page` message waits for the
\* delay; after the last message the invocation returns
HandleMessage(w) ==
    /\ handler[w].pc = "loop"
    /\ handler' = [handler EXCEPT ![w] =
          IF handler[w].batch = <<>> THEN IdleHandler
          ELSE IF Current(w).type = "page" /\ Current(w).page # 0
               THEN [@ EXCEPT !.pc = "finished_page"]
               ELSE [@ EXCEPT !.batch = Tail(@)]]
    /\ UNCHANGED <<storage, queue, dispatch, status, ends_sent, true_count,
                   delete_count, late_recorded, recorded, failed, redeliveries>>

\* the handler record after the awaited call at position pc returned
Advance(h, finished) ==
    LET next == NextPc(h.pc, finished)
    IN  IF next = "loop"
        THEN [h EXCEPT !.pc = "loop", !.batch = Tail(@), !.was_present = FALSE,
                       !.finished = FALSE]
        ELSE [h EXCEPT !.pc = next]

\* line 125: await stub.finished_page(message.body.page)
FinishedPage(w) ==
    /\ handler[w].pc = "finished_page"
    /\ LET d == CurrentDoc(w)
           present == Current(w).page \in GetFinishedOrEmpty(storage[d])
       IN  /\ storage' = [storage EXCEPT ![d] = finished_page(@, Current(w).page)]
           /\ handler' = [handler EXCEPT ![w] =
                             [Advance(@, FALSE) EXCEPT !.was_present = present]]
           /\ late_recorded' = [late_recorded EXCEPT ![d] = @ \/ delete_count[d] > 0]
           /\ recorded' = [recorded EXCEPT ![d] = @ \cup {Current(w).page}]
    /\ UNCHANGED <<queue, dispatch, status, ends_sent, true_count,
                   delete_count, failed, redeliveries>>

\* line 127: if (await stub.is_finished())
IsFinished(w) ==
    /\ handler[w].pc = "is_finished"
    /\ LET d == CurrentDoc(w)
           finished == is_finished(storage[d])
       IN  /\ handler' = [handler EXCEPT ![w] =
                             Advance([@ EXCEPT !.finished = finished], finished)]
           /\ true_count' = [true_count EXCEPT ![d] = IF finished THEN @ + 1 ELSE @]
    /\ UNCHANGED <<storage, queue, dispatch, status, ends_sent, delete_count,
                   late_recorded, recorded, failed, redeliveries>>

\* line 128: await env.MY_QUEUE.send({ type: 'end', ... })
SendEnd(w) ==
    /\ handler[w].pc = "send_end"
    /\ LET d == CurrentDoc(w)
       IN  /\ queue' = queue (+) SetToBag({EndMessage(d)})
           /\ ends_sent' = [ends_sent EXCEPT ![d] = @ + 1]
    /\ handler' = [handler EXCEPT ![w] = Advance(@, TRUE)]
    /\ UNCHANGED <<storage, dispatch, status, true_count, delete_count,
                   late_recorded, recorded, failed, redeliveries>>

\* line 129: await stub.delete()
Delete(w) ==
    /\ handler[w].pc = "delete"
    /\ LET d == CurrentDoc(w)
       IN  /\ storage' = [storage EXCEPT ![d] = delete(@)]
           /\ delete_count' = [delete_count EXCEPT ![d] = @ + 1]
           /\ recorded' = [recorded EXCEPT ![d] = {}]
           /\ handler' = [v \in Workers |->
                 IF v = w THEN Advance(handler[w], TRUE)
                 ELSE IF handler[v].batch # <<>> /\ CurrentDoc(v) = d
                      THEN [handler[v] EXCEPT !.was_present = FALSE]
                      ELSE handler[v]]
    /\ UNCHANGED <<queue, dispatch, status, ends_sent, true_count,
                   late_recorded, failed, redeliveries>>

\* defective variant: the exception is caught and logged, queue() returns
\* and the batch is acknowledged
FailSwallowed(w) ==
    /\ handler[w].pc \in {"finished_page", "is_finished", "send_end", "delete"}
    /\ Len(failed) < MaxFailures
    /\ failed' = Append(failed, [document_id |-> CurrentDoc(w), pc |-> handler[w].pc])
    /\ handler' = [handler EXCEPT ![w] = IdleHandler]
    /\ UNCHANGED <<storage, queue, dispatch, status, ends_sent, true_count,
                   delete_count, late_recorded, recorded, redeliveries>>

\* an awaited call on the stub or on the queue rejects: queue() has no
\* try/catch, so the exception leaves the invocation, the batch is not
\* acknowledged and the queue delivers all of its messages again
Fail(w) ==
    /\ handler[w].pc \in {"finished_page", "is_finished", "send_end", "delete"}
    /\ Len(failed) < MaxFailures
    /\ failed' = Append(failed, [document_id |-> CurrentDoc(w), pc |-> handler[w].pc])
    /\ queue' = queue (+) SeqToBag(handler[w].delivered)
    /\ handler' = [handler EXCEPT ![w] = IdleHandler]
    /\ UNCHANGED <<storage, dispatch, status, ends_sent, true_count,
                   delete_count, late_recorded, recorded, redeliveries>>

(* ---- specifications ---- *)
\* the amounts requested in the concurrent system: 1..MaxPages and -1
Queries == {Str(toString(n)) : n \in 1..MaxPages} \cup {Str(<<"-", "1">>)}

Consume ==
    \E w \in Workers :
        \/ \E b \in Batches(queue), again \in BOOLEAN : Deliver(w, b, again)
        \/ HandleMessage(w)
        \/ FinishedPage(w)
        \/ IsFinished(w)
        \/ SendEnd(w)
        \/ Delete(w)

SendToQueue ==
    \E d \in Docs :
        \/ \E q \in Queries : SendToQueueStore(d, q)
        \/ SendToQueueSend(d)

Status ==
    \/ \E d \in Docs : StatusRequest(d)
    \/ StatusIsFinished
    \/ StatusGetFinishedPages

Next == SendToQueue \/ Consume \/ Status

Spec == Init /\ [][Next]_vars

\* GET /send_to_queue alone, over every `amount` parameter of at most MaxLen
\* characters: no consumer runs, so the queue keeps what sendBatch was given
Chars == {"0", "1", "2", "5", "-", "a", " "}
AllQueries ==
    {Undefined} \cup {Str(s) : s \in UNION {[1..n -> Chars] : n \in 0..MaxLen}}

NextDispatch ==
    \E d \in Docs :
        \/ \E q \in AllQueries : SendToQueueStore(d, q)
        \/ SendToQueueSend(d)

SpecDispatch == Init /\ [][NextDispatch]_vars

\* the consumers run under weak fairness: an invocation that started is run
\* to completion, and a message waiting in the queue is delivered
ConsumerStep(w) ==
    HandleMessage(w) \/ FinishedPage(w) \/ IsFinished(w) \/ SendEnd(w) \/ Delete(w)

DeliverLast(w) == \E b \in Batches(queue) : Deliver(w, b, FALSE)

FairSpec ==
    /\ Spec
    /\ \A w \in Workers : WF_vars(ConsumerStep(w))
    /\ WF_vars(\E w \in Workers : DeliverLast(w))

\* the consumers with failing calls, without the /status requests
NextFail == SendToQueue \/ Consume \/ \E w \in Workers : Fail(w)

SpecFail == Init /\ [][NextFail]_vars

FairSpecFail ==
    /\ SpecFail
    /\ \A w \in Workers : WF_vars(ConsumerStep(w))
    /\ WF_vars(\E w \in Workers : DeliverLast(w))

(* ---- claims ---- *)

\* a dispatched job of at least one page
Job(d) == dispatch[d].pc = "sent" /\ dispatch[d].amount >= 1

\* every page message of d has been consumed: none waits in the queue and no
\* consumer invocation still holds one
PagesConsumed(d) ==
    /\ \A m \in BagToSet(queue) : ~(m.type = "page" /\ m.document_id = d)
    /\ \A w \in Workers : \A i \in 1..Len(handler[w].batch) :
           ~(handler[w].batch[i].type = "page" /\ handler[w].batch[i].document_id = d)

\* C1: for every document at most one `end` message is ever sent to the
\* queue, under any interleaving of the consumers and any redelivery.
C1_AtMostOneEnd == \A d \in Docs : ends_sent[d] <= 1

\* C2: when the pages 1..N of a fresh job are each delivered once and recorded
\* by concurrent consumers, exactly one consumer sees is_finished() = true.
C2_ExactlyOneTrueConcurrent ==
    redeliveries = 0 =>
        \A d \in Docs :
            /\ true_count[d] <= 1
            /\ Job(d) /\ PagesConsumed(d) => true_count[d] = 1

\* C3: over a whole delivery sequence that contains every page at least once,
\* duplicates included, the completion check is true for exactly one item.
C3_ExactlyOneTrueOverall ==
    \A d \in Docs : Job(d) /\ PagesConsumed(d) => true_count[d] = 1

\* C4: recording a page that is already in the completed set, with no delete
\* in between, never yields true.
C4_NoTrueForPresentPage ==
    \A w \in Workers : handler[w].pc = "send_end" => ~handler[w].was_present

\* C5: for every dispatched job of at least one page the stored completed set
\* is a subset of 1..expected and not larger than the stored expected count.
C5_CompletedWithinExpected ==
    \A d \in Docs :
        dispatch[d].pc # "none" /\ dispatch[d].amount >= 1 =>
            /\ GetFinishedOrEmpty(storage[d]) \subseteq 1..GetAmountOrZero(storage[d])
            /\ Cardinality(GetFinishedOrEmpty(storage[d])) <= GetAmountOrZero(storage[d])

\* C6 as claimed: a status response for a request made after the delete
\* reports finished = false and no pages.
C6_StatusAfterDeleteNotFinished ==
    status.pc = "done" /\ status.after_delete =>
        /\ status.finished = FALSE
        /\ status.finished_pages = {}

\* C6 as amended: a status response for a request made after the delete, when
\* no page was recorded after a delete, reports finished = true and no pages.
C6_StatusAfterDeleteFinished ==
    status.pc = "done" /\ status.after_delete
        /\ ~late_recorded[status.document_id] =>
        /\ status.finished = TRUE
        /\ status.finished_pages = {}

C6_Witness ==
    /\ status.pc = "done"
    /\ status.after_delete
    /\ ~late_recorded[status.document_id]
    /\ dispatch[status.document_id].amount = MaxPages

\* C7: the state of a document is deleted at most once.
C7_DeletedOnce == \A d \in Docs : delete_count[d] <= 1

\* C8: the state of a document is never deleted before an `end` message for
\* it was sent; when the state is absent after dispatch, an `end` was sent.
C8_EmitThenDestroy ==
    \A d \in Docs :
        /\ delete_count[d] >= 1 => ends_sent[d] >= 1
        /\ dispatch[d].pc # "none" /\ "amount_of_pages" \notin storage[d].keys
               => ends_sent[d] >= 1

C8_Witness ==
    \E d \in Docs :
        /\ Job(d)
        /\ delete_count[d] >= 1
        /\ storage[d].keys = {}

\* C9: under fair delivery and fair consumers, a dispatched job of N >= 1
\* pages eventually has an `end` message sent and its state deleted.
C9_EventuallyEndAndDelete ==
    \A d \in Docs : Job(d) ~> (ends_sent[d] >= 1 /\ delete_count[d] >= 1)

C9_Witness ==
    \E d \in Docs :
        /\ Job(d)
        /\ dispatch[d].amount = MaxPages
        /\ ends_sent[d] >= 1
        /\ delete_count[d] >= 1
        /\ PagesConsumed(d)

\* the requested size a reader takes from the `amount` parameter: a decimal
\* numeral, an optional "-" before one or more digits
IsNumeral(s) ==
    LET body == IF s # <<>> /\ Head(s) = "-" THEN Tail(s) ELSE s
    IN  body # <<>> /\ \A i \in 1..Len(body) : body[i] \in DigitChars
NumeralValue(s) ==
    IF Head(s) = "-" THEN 0 - DecimalValue(Tail(s)) ELSE DecimalValue(s)
HasDigit(s) == \E i \in 1..Len(s) : s[i] \in DigitChars

\* the number of page messages of d waiting in the queue
PagesQueued(d) ==
    Cardinality({m \in BagToSet(queue) : m.type = "page" /\ m.document_id = d})

Dispatched(d, n) ==
    /\ GetAmountOrZero(storage[d]) = n
    /\ PagesQueued(d) = n
    /\ \A i \in 1..n : CopiesIn(PageMessage(d, i, n), queue) = 1

\* C10: a missing, non-numeric, zero or negative requested size is dispatched
\* as the default 100 (100 stored, 100 page messages); a positive numeral is
\* dispatched as requested.  Parameters that mix digits with other characters
\* are left open.
C10_FallbackToDefault ==
    \A d \in Docs :
        dispatch[d].pc = "sent" =>
            LET q == dispatch[d].query
            IN  /\ ~q.present => Dispatched(d, 100)
                /\ q.present /\ ~HasDigit(q.value) => Dispatched(d, 100)
                /\ q.present /\ IsNumeral(q.value) /\ NumeralValue(q.value) <= 0
                       => Dispatched(d, 100)
                /\ q.present /\ IsNumeral(q.value) /\ NumeralValue(q.value) > 0
                       => Dispatched(d, NumeralValue(q.value))

\* C11: no sendBatch is given more than 100 messages.
C11_BatchWithinLimit == \A d \in Docs : PagesQueued(d) <= sendBatchLimit

\* C12: a step of the /status request leaves the storage of every document
\* unchanged and sends nothing to the queue.
C12_StatusReadOnly ==
    [][status' # status =>
          /\ storage' = storage
          /\ queue' = queue
          /\ ends_sent' = ends_sent]_vars

C12_Witness ==
    /\ status.pc = "done"
    /\ status.finished_pages # {}
    /\ "amount_of_pages" \in storage[status.document_id].keys

\* C13: recording a page that is already stored leaves the stored set as it
\* is, and the stored set has as many pages as were recorded, counted once
\* each, since the last delete.
C13_RecordIdempotent ==
    /\ [](\A d \in Docs :
             Cardinality(GetFinishedOrEmpty(storage[d])) = Cardinality(recorded[d]))
    /\ [][\A w \in Workers :
             handler[w].pc = "finished_page" /\ handler'[w].pc = "is_finished" =>
                 LET d == CurrentDoc(w)
                 IN  Current(w).page \in GetFinishedOrEmpty(storage[d]) =>
                         GetFinishedOrEmpty(storage'[d]) = GetFinishedOrEmpty(storage[d])]_vars

C13_Witness ==
    \E w \in Workers :
        /\ handler[w].pc = "is_finished"
        /\ handler[w].was_present
        /\ Cardinality(recorded[CurrentDoc(w)]) = MaxPages

\* the messages of document d in the queue or held by a consumer
MessagesOf(d) ==
    {m \in BagToSet(queue) \cup
            UNION {{handler[w].batch[i] : i \in 1..Len(handler[w].batch)} : w \in Workers} :
        m.document_id = d}

\* C14: dispatch stores expected_pages = N before it submits anything, then
\* submits exactly the page items 1..N, each once, with total_pages = N; no
\* page item exists, or is processed, before the amount was stored.
C14_StoreThenSend ==
    /\ [](\A d \in Docs :
             /\ dispatch[d].pc # "sent" => MessagesOf(d) = {}
             /\ dispatch[d].pc = "stored" =>
                    /\ "amount_of_pages" \in storage[d].keys
                    /\ storage[d].amount_of_pages = dispatch[d].amount
             /\ \A m \in MessagesOf(d) :
                    m.type = "page" =>
                        /\ m.page \in 1..dispatch[d].amount
                        /\ m.total_pages = dispatch[d].amount)
    /\ [][\A d \in Docs :
             dispatch[d].pc = "stored" /\ dispatch'[d].pc = "sent"
                 /\ dispatch[d].amount >= 1 =>
                 LET n == dispatch[d].amount
                 IN  /\ storage[d].amount_of_pages = n
                     /\ BagCardinality(queue') = BagCardinality(queue) + n
                     /\ \A i \in 1..n :
                            CopiesIn(PageMessage(d, i, n), queue')
                                = CopiesIn(PageMessage(d, i, n), queue) + 1]_vars

C14_Witness ==
    \E d \in Docs, w \in Workers :
        /\ dispatch[d].pc = "sent"
        /\ dispatch[d].amount = MaxPages
        /\ handler[w].pc = "finished_page"
        /\ Current(w) = PageMessage(d, MaxPages, MaxPages)

\* C15: a consumer whose completion check was false goes on to the next
\* message; an `end` message is sent, and a delete made, only by a consumer
\* whose own check was true.
C15_NoActionAfterFalse ==
    /\ [](\A w \in Workers :
             handler[w].pc \in {"send_end", "delete"} => handler[w].finished)
    /\ [][\A d \in Docs :
             ends_sent'[d] # ends_sent[d] \/ delete_count'[d] # delete_count[d] =>
                 \E w \in Workers :
                     /\ handler[w].finished
                     /\ CurrentDoc(w) = d
                     /\ handler'[w] # handler[w]]_vars

C15_Witness ==
    \E d \in Docs :
        /\ dispatch[d].amount >= 2
        /\ Cardinality(recorded[d]) = 1
        /\ true_count[d] = 0
        /\ ends_sent[d] = 0
        /\ \A w \in Workers : handler[w].pc = "idle"
        /\ \E m \in BagToSet(queue) : m.document_id = d

\* C16: consuming an `end` message changes no storage and sends nothing; the
\* consumer goes on to the next message and never enters the page branch.
C16_EndIsTerminal ==
    /\ [](\A w \in Workers :
             handler[w].pc \in {"finished_page", "is_finished", "send_end", "delete"}
                 => Current(w).type = "page")
    /\ [][\A w \in Workers :
             handler[w].pc = "loop" /\ handler[w].batch # <<>>
                 /\ Current(w).type = "end" /\ handler'[w] # handler[w] =>
                 /\ storage' = storage
                 /\ queue' = queue
                 /\ ends_sent' = ends_sent
                 /\ handler'[w].pc = "loop"
                 /\ handler'[w].batch = Tail(handler[w].batch)]_vars

C16_Witness ==
    \E d \in Docs :
        /\ ends_sent[d] >= 1
        /\ CopiesIn(EndMessage(d), queue) = 0
        /\ \A w \in Workers : handler[w].pc = "idle"

\* C17: when a consumer threw after sending `end` and before its delete, the
\* redelivered page item does not make a second `end` message.
C17_NoSecondEndAfterFailure ==
    \A d \in Docs :
        (\E i \in 1..Len(failed) :
            failed[i].document_id = d /\ failed[i].pc = "delete")
            => ends_sent[d] <= 1

\* C18: a failing call leaves the invocation with its batch back in the
\* queue, and under fair redelivery the job still has all pages recorded, a
\* true completion check and its `end` message.
C18_NoSignalLost ==
    /\ [][\A w \in Workers :
             handler[w].pc \in {"finished_page", "is_finished", "send_end", "delete"}
                 /\ handler'[w].pc = "idle" =>
                 SeqToBag(handler[w].delivered) \sqsubseteq queue']_vars
    /\ \A d \in Docs : Job(d) ~> (true_count[d] >= 1 /\ ends_sent[d] >= 1)

C18_Witness ==
    \E d \in Docs :
        /\ Job(d)
        /\ dispatch[d].amount = MaxPages
        /\ Len(failed) >= 1
        /\ failed[1].document_id = d
        /\ failed[1].pc \in {"finished_page", "is_finished", "delete"}
        /\ ends_sent[d] >= 1

\* C19: once a /status response for a dispatched document said finished =
\* true, every later response for it says finished = true.
C19_FinishedStable ==
    status.pc = "done" /\ status.prev_true => status.finished

====
